---- MODULE Spec2Model ----
(***************************************************************************)
(* A model of pm_dashboard.py: one run of main() over the contents of      *)
(* project_data.csv and milestones.json.                                   *)
(*                                                                         *)
(* A DataFrame is column oriented, as in pandas: a function from column    *)
(* names to sequences of equal length.  DataFrames live in a heap and are  *)
(* handled through references, so that "the same object, changed in place" *)
(* and "a new object" are different states.  Numbers of a frame are exact  *)
(* fractions <<n, d>> in lowest terms with d > 0; <<1, 0>> and <<0, 0>>    *)
(* stand for the float values inf and nan that a division by zero gives.   *)
(***************************************************************************)
EXTENDS Integers, Sequences, FiniteSets, TLC

VARIABLES
    pc,              \* position of main()
    task_file,       \* project_data.csv: [present, rows]
    ms_file,         \* milestones.json: [present, doc]
    heap,            \* the DataFrame objects, indexed by reference
    df,              \* main's local df: a reference into heap, 0 for None
    call,            \* the latest call of a metrics function: its argument, the
                     \* argument's contents at the call, and the reference returned
    scorecard,       \* what generate_project_health_scorecard computed
    resource_counts, \* first result of identify_overallocated_resources
    overallocated,   \* second result of identify_overallocated_resources
    milestone_table, \* the rows display_milestone_status tabulates
    risk_by_dept,    \* the count table generate_risk_heatmap draws
    out              \* the reports, diagnostics and files produced, in order

vars == <<pc, task_file, ms_file, heap, df, call, scorecard, resource_counts,
          overallocated, milestone_table, risk_by_dept, out>>

(***************************************************************************)
(* Bounds of the model.                                                    *)
(***************************************************************************)
MaxTasks == 2
MaxEvmTasks == 2
MaxAllocTasks == 4
MaxRiskTasks == 3
MaxMilestones == 2

(***************************************************************************)
(* Numbers.                                                                *)
(***************************************************************************)
Abs(n) == IF n < 0 THEN -n ELSE n

\* Euclid's algorithm, as a function so that its arguments are values.
GCD[a \in Nat, b \in Nat] == IF b = 0 THEN a ELSE GCD[b, a % b]

Lowest[n \in Int, d \in Int] ==
    LET g == GCD[Abs(n), Abs(d)]
        s == IF d < 0 THEN -1 ELSE 1
    IN  <<(s * n) \div g, (s * d) \div g>>

\* The fraction n/d in lowest terms, d > 0.
Frac(n, d) == Lowest[n, d]

Inf == <<1, 0>>
NaN == <<0, 0>>
Num(n) == <<n, 1>>
Zero == Num(0)
One == Num(1)
IsFinite(x) == x[2] # 0

\* Arithmetic is defined on values: x and y are numbers, not expressions.
Numbers == Int \X Int

\* Float division: x/0 is inf (nan for 0/0) in a Series, never an exception.
Quotient[x \in Numbers, y \in Numbers] ==
    IF ~IsFinite(x) \/ ~IsFinite(y) THEN NaN
    ELSE IF y[1] = 0 THEN (IF x[1] = 0 THEN NaN ELSE Inf)
    ELSE Frac(x[1] * y[2], x[2] * y[1])

Difference[x \in Numbers, y \in Numbers] ==
    IF ~IsFinite(x) \/ ~IsFinite(y) THEN NaN
    ELSE Frac(x[1] * y[2] - y[1] * x[2], x[2] * y[2])

SumOf[x \in Numbers, y \in Numbers] ==
    IF ~IsFinite(x) \/ ~IsFinite(y) THEN NaN
    ELSE Frac(x[1] * y[2] + y[1] * x[2], x[2] * y[2])

Div(x, y) == Quotient[x, y]
Sub(x, y) == Difference[x, y]
Add(x, y) == SumOf[x, y]

Greater(x, y) == IsFinite(x) /\ IsFinite(y) /\ x[1] * y[2] > y[1] * x[2]

(***************************************************************************)
(* Series (columns).                                                       *)
(***************************************************************************)
\* Series.replace(a, b): every value equal to a becomes b.
replace(s, a, b) == [i \in 1..Len(s) |-> IF s[i] = a THEN b ELSE s[i]]

\* Series / Series and Series - Series, element by element.
SeriesDiv(s, t) == [i \in 1..Len(s) |-> Div(s[i], t[i])]
SeriesSub(s, t) == [i \in 1..Len(s) |-> Sub(s[i], t[i])]

RECURSIVE SumUpTo(_, _)
SumUpTo(s, n) == IF n = 0 THEN Zero ELSE Add(SumUpTo(s, n - 1), s[n])

\* Series.sum()
sum(s) == SumUpTo(s, Len(s))

(***************************************************************************)
(* DataFrames.                                                             *)
(***************************************************************************)
TextColumns == {"Task_Name", "Department", "Resource_Name", "Status"}
AmountColumns == {"Planned_Value", "Actual_Cost", "Earned_Value"}
InputColumns == TextColumns \cup {"Risk_Level"} \cup AmountColumns
DerivedColumns == {"CPI", "SPI", "EAC", "Variance_at_Completion"}

NRows(f) == Len(f["Task_Name"])

\* df[c] = s: the column is added, or replaced when the frame has it.
SetColumn(f, c, s) == [k \in DOMAIN f \cup {c} |-> IF k = c THEN s ELSE f[k]]

\* pd.read_csv: the rows of the file become columns; amounts become numbers.
read_csv(rows) ==
    [c \in InputColumns |->
        [i \in 1..Len(rows) |->
            IF c \in AmountColumns THEN Num(rows[i][c]) ELSE rows[i][c]]]

(***************************************************************************)
(* EVM metrics per record.                                                 *)
(***************************************************************************)
\* mutant: the divisor is used as it is
evm_CPI_raw_divisor(f) == SeriesDiv(f["Earned_Value"], f["Actual_Cost"])

\* df['Earned_Value'] / df['Actual_Cost'].replace(0, 1)
evm_CPI(f) == SeriesDiv(f["Earned_Value"], replace(f["Actual_Cost"], Zero, One))

\* df['Earned_Value'] / df['Planned_Value'].replace(0, 1)
evm_SPI(f) == SeriesDiv(f["Earned_Value"], replace(f["Planned_Value"], Zero, One))

\* mutant: a zero CPI divides
eac_EAC_raw_divisor(f) == SeriesDiv(f["Planned_Value"], f["CPI"])

\* df['Planned_Value'] / df['CPI'].replace(0, 1)
eac_EAC(f) == SeriesDiv(f["Planned_Value"], replace(f["CPI"], Zero, One))

\* mutant: the operands are swapped
eac_VAC_swapped(f) == SeriesSub(f["EAC"], f["Planned_Value"])

\* df['Planned_Value'] - df['EAC']
eac_VAC(f) == SeriesSub(f["Planned_Value"], f["EAC"])

\* mutant: the columns are added to a copy, which is returned
calculate_evm_metrics_copy(h, ref) ==
    LET f1 == SetColumn(h[ref], "CPI", evm_CPI(h[ref]))
        f2 == SetColumn(f1, "SPI", evm_SPI(f1))
    IN  [heap |-> Append(h, f2), ret |-> Len(h) + 1]

\* calculate_evm_metrics(df) on the heap h: the frame behind ref gets the two
\* columns, one assignment after the other, and ref itself is returned.
calculate_evm_metrics(h, ref) ==
    LET f1 == SetColumn(h[ref], "CPI", evm_CPI(h[ref]))
        f2 == SetColumn(f1, "SPI", evm_SPI(f1))
    IN  [heap |-> [h EXCEPT ![ref] = f2], ret |-> ref]

\* mutant: the variance column is not assigned
calculate_eac_no_variance(h, ref) ==
    LET f1 == SetColumn(h[ref], "EAC", eac_EAC(h[ref]))
    IN  [heap |-> [h EXCEPT ![ref] = f1], ret |-> ref]

\* calculate_eac(df) on the heap h.
calculate_eac(h, ref) ==
    LET f1 == SetColumn(h[ref], "EAC", eac_EAC(h[ref]))
        f2 == SetColumn(f1, "Variance_at_Completion", eac_VAC(f1))
    IN  [heap |-> [h EXCEPT ![ref] = f2], ret |-> ref]

(***************************************************************************)
(* The scorecard's aggregate figures.                                      *)
(***************************************************************************)
\* mutant: the per-record policy, a zero divisor replaced by 1
overall_index_substituting(total_num, total_den) ==
    Div(total_num, IF total_den # Zero THEN total_den ELSE One)

\* total_ev / total_ac if total_ac else 0, and the same shape for SPI and EAC
overall_index(total_num, total_den) ==
    IF total_den # Zero THEN Div(total_num, total_den) ELSE Zero

\* variance_at_completion = total_pv - overall_eac
overall_variance(total_ev, total_pv, overall_eac) == Sub(total_pv, overall_eac)

\* abs(1 - index) * 100, the variance column of the indicators table
variance_percent(index) ==
    LET d == Sub(One, index)
    IN  IF ~IsFinite(d) THEN NaN ELSE Frac(Abs(d[1]) * 100, d[2])

generate_project_health_scorecard(f) ==
    LET total_ev == sum(f["Earned_Value"])
        total_ac == sum(f["Actual_Cost"])
        total_pv == sum(f["Planned_Value"])
        overall_cpi == overall_index(total_ev, total_ac)
        overall_spi == overall_index(total_ev, total_pv)
        overall_eac == overall_index(total_pv, overall_cpi)
    IN  [made |-> TRUE,
         total_ev |-> total_ev, total_ac |-> total_ac, total_pv |-> total_pv,
         overall_cpi |-> overall_cpi, overall_spi |-> overall_spi,
         overall_eac |-> overall_eac,
         variance_at_completion |-> overall_variance(total_ev, total_pv, overall_eac),
         cost_status |-> IF Greater(overall_cpi, One) THEN "Under Budget"
                         ELSE "Over Budget",
         cost_variance |-> variance_percent(overall_cpi),
         schedule_status |-> IF Greater(overall_spi, One) THEN "Ahead of Schedule"
                             ELSE "Behind Schedule",
         schedule_variance |-> variance_percent(overall_spi),
         \* the task table reads CPI and SPI of every row
         task_data |-> [i \in 1..NRows(f) |->
                          <<f["Task_Name"][i], f["Department"][i],
                            f["Resource_Name"][i], f["CPI"][i], f["SPI"][i],
                            f["Risk_Level"][i], f["Status"][i]>>]]

NoScorecard ==
    [made |-> FALSE,
     total_ev |-> Zero, total_ac |-> Zero, total_pv |-> Zero,
     overall_cpi |-> Zero, overall_spi |-> Zero, overall_eac |-> Zero,
     variance_at_completion |-> Zero,
     cost_status |-> "", cost_variance |-> Zero,
     schedule_status |-> "", schedule_variance |-> Zero,
     task_data |-> <<>>]

(***************************************************************************)
(* Resource allocation.                                                    *)
(***************************************************************************)
OverallocationThreshold == 3

\* df[df['Status'] == 'In Progress']: the positions of the rows kept
active_tasks(f) == {i \in 1..NRows(f) : f["Status"][i] = "In Progress"}

\* the number value_counts() gives a resource of the active tasks
active_count(f, r) ==
    Cardinality({i \in active_tasks(f) : f["Resource_Name"][i] = r})

\* The orders value_counts() can give: descending counts, equal counts in an
\* order pandas does not fix.  A resource without active task has no entry.
value_counts(f) ==
    LET rs == {f["Resource_Name"][i] : i \in active_tasks(f)}
        n  == Cardinality(rs)
    IN  {s \in [1..n -> [Resource_Name : rs, Active_Tasks : 1..NRows(f)]] :
            /\ \A i \in 1..n : s[i].Active_Tasks = active_count(f, s[i].Resource_Name)
            /\ \A i, j \in 1..n : i # j => s[i].Resource_Name # s[j].Resource_Name
            /\ \A i, j \in 1..n : i < j => s[i].Active_Tasks >= s[j].Active_Tasks}

\* mutant: three active tasks are flagged already
is_overallocated_inclusive(row) == row.Active_Tasks >= OverallocationThreshold

\* resource_counts['Active_Tasks'] > 3
is_overallocated(row) == row.Active_Tasks > OverallocationThreshold

\* resource_counts[resource_counts['Active_Tasks'] > 3]
overallocated_of(counts) == SelectSeq(counts, is_overallocated)

(***************************************************************************)
(* Risk matrix.                                                            *)
(***************************************************************************)
\* mutant: the group is formed on the department alone
group_size_by_department(f, d, r) ==
    Cardinality({i \in 1..NRows(f) : f["Department"][i] = d})

\* groupby(['Department', 'Risk_Level']).size() for one group
group_size(f, d, r) ==
    Cardinality({i \in 1..NRows(f) :
                    f["Department"][i] = d /\ f["Risk_Level"][i] = r})

\* groupby(...).size().unstack(fill_value=0): a row per department and a
\* column per risk level that occur; a pair without record holds fill_value.
risk_matrix(f) ==
    LET groups == {<<f["Department"][i], f["Risk_Level"][i]>> : i \in 1..NRows(f)}
        fill_value == 0
    IN  [d \in {g[1] : g \in groups} |->
            [r \in {g[2] : g \in groups} |->
                IF <<d, r>> \in groups THEN group_size(f, d, r) ELSE fill_value]]

(***************************************************************************)
(* Milestones.  A JSON value is <<"null">> or <<"str", s>>.                *)
(***************************************************************************)
JNull == <<"null">>
JStr(s) == <<"str", s>>

\* Python truth of a JSON value: None and '' are false.
Truthy(v) == v[1] = "str" /\ v[2] # ""

\* mutant: a status outside the table gets the icon of "Not Started"
status_icon_no_default(status) ==
    CASE status = "Completed"   -> "U+2705"
      [] status = "In Progress" -> "U+1F504"
      [] OTHER                  -> "U+23F3"

\* {...}.get(milestone['status'], default): icons are named by code point
status_icon(status) ==
    CASE status = "Completed"   -> "U+2705"
      [] status = "In Progress" -> "U+1F504"
      [] status = "Not Started" -> "U+23F3"
      [] OTHER                  -> "U+2753"

\* milestone['completion_date'] or 'N/A'
completed_cell(m) ==
    IF Truthy(m.completion_date) THEN m.completion_date ELSE JStr("N/A")

\* one row of milestone_table
milestone_row(m) ==
    [name |-> m.name, owner |-> m.owner, target_date |-> m.target_date,
     completed |-> completed_cell(m),
     status |-> <<status_icon(m.status), m.status>>]

\* load_milestones(): None when the file is not found
load_milestones ==
    IF ms_file.present THEN [none |-> FALSE, value |-> ms_file.doc]
    ELSE [none |-> TRUE, value |-> <<>>]

\* not milestones_data: None, or a document without any key
Falsy(loaded) == loaded.none \/ DOMAIN loaded.value = {}

(***************************************************************************)
(* main()                                                                  *)
(***************************************************************************)
NoCall == [fn |-> "none", arg |-> 0, before |-> <<>>, ret |-> 0]

\* df = load_project_data(); if df is None: return
LoadProjectData ==
    /\ pc = "start"
    /\ \/ /\ task_file.present
          /\ heap' = Append(heap, read_csv(task_file.rows))
          /\ df' = Len(heap) + 1
          /\ pc' = "evm"
          /\ out' = out
       \/ /\ ~task_file.present
          /\ out' = Append(out, "Error: project_data.csv not found.")
          /\ pc' = "halted"
          /\ UNCHANGED <<heap, df>>
    /\ UNCHANGED <<task_file, ms_file, call, scorecard, resource_counts,
                   overallocated, milestone_table, risk_by_dept>>

\* df = calculate_evm_metrics(df)
CalculateEvmMetrics ==
    /\ pc = "evm"
    /\ LET r == calculate_evm_metrics(heap, df)
       IN  /\ heap' = r.heap
           /\ df' = r.ret
           /\ call' = [fn |-> "calculate_evm_metrics", arg |-> df,
                       before |-> heap[df], ret |-> r.ret]
    /\ pc' = "eac"
    /\ UNCHANGED <<task_file, ms_file, scorecard, resource_counts, overallocated,
                   milestone_table, risk_by_dept, out>>

\* df = calculate_eac(df)
CalculateEac ==
    /\ pc = "eac"
    /\ LET r == calculate_eac(heap, df)
       IN  /\ heap' = r.heap
           /\ df' = r.ret
           /\ call' = [fn |-> "calculate_eac", arg |-> df,
                       before |-> heap[df], ret |-> r.ret]
    /\ pc' = "scorecard"
    /\ UNCHANGED <<task_file, ms_file, scorecard, resource_counts, overallocated,
                   milestone_table, risk_by_dept, out>>

\* generate_project_health_scorecard(df)
Scorecard ==
    /\ pc = "scorecard"
    /\ scorecard' = generate_project_health_scorecard(heap[df])
    /\ out' = Append(out, "scorecard")
    /\ pc' = "alloc"
    /\ UNCHANGED <<task_file, ms_file, heap, df, call, resource_counts,
                   overallocated, milestone_table, risk_by_dept>>

\* analyze_resource_allocation(df), identify_overallocated_resources included
AnalyzeResourceAllocation ==
    /\ pc = "alloc"
    /\ \E counts \in value_counts(heap[df]) :
          /\ resource_counts' = counts
          /\ overallocated' = overallocated_of(counts)
    /\ out' = Append(out, "resource_allocation")
    /\ pc' = "milestones"
    /\ UNCHANGED <<task_file, ms_file, heap, df, call, scorecard, milestone_table,
                   risk_by_dept>>

\* mutant: a missing milestone file ends the run
DisplayMilestoneStatus_fatal ==
    /\ pc = "milestones"
    /\ LET milestones_data == load_milestones
       IN  \/ /\ Falsy(milestones_data)
              /\ out' = IF milestones_data.none
                        THEN Append(out, "Warning: milestones.json not found.")
                        ELSE out
              /\ pc' = "halted"
              /\ UNCHANGED milestone_table
           \/ /\ ~Falsy(milestones_data)
              /\ milestone_table' =
                    [i \in 1..Len(milestones_data.value.milestones) |->
                        milestone_row(milestones_data.value.milestones[i])]
              /\ out' = Append(out, "milestones")
              /\ pc' = "budget"
    /\ UNCHANGED <<task_file, ms_file, heap, df, call, scorecard, resource_counts,
                   overallocated, risk_by_dept>>

\* display_milestone_status()
DisplayMilestoneStatus ==
    /\ pc = "milestones"
    /\ LET milestones_data == load_milestones
       IN  \/ /\ Falsy(milestones_data)
              /\ out' = IF milestones_data.none
                        THEN Append(out, "Warning: milestones.json not found.")
                        ELSE out
              /\ UNCHANGED milestone_table
           \/ /\ ~Falsy(milestones_data)
              /\ milestone_table' =
                    [i \in 1..Len(milestones_data.value.milestones) |->
                        milestone_row(milestones_data.value.milestones[i])]
              /\ out' = Append(out, "milestones")
    /\ pc' = "budget"
    /\ UNCHANGED <<task_file, ms_file, heap, df, call, scorecard, resource_counts,
                   overallocated, risk_by_dept>>

\* generate_budget_chart(df): the three amount columns are drawn and saved
GenerateBudgetChart ==
    /\ pc = "budget"
    /\ out' = Append(out, "budget_report.png")
    /\ pc' = "heatmap"
    /\ UNCHANGED <<task_file, ms_file, heap, df, call, scorecard, resource_counts,
                   overallocated, milestone_table, risk_by_dept>>

\* generate_risk_heatmap(df), then main's closing lines
GenerateRiskHeatmap ==
    /\ pc = "heatmap"
    /\ risk_by_dept' = risk_matrix(heap[df])
    /\ out' = out \o <<"risk_heatmap.png", "complete">>
    /\ pc' = "done"
    /\ UNCHANGED <<task_file, ms_file, heap, df, call, scorecard, resource_counts,
                   overallocated, milestone_table>>

Next ==
    \/ LoadProjectData
    \/ CalculateEvmMetrics
    \/ CalculateEac
    \/ Scorecard
    \/ AnalyzeResourceAllocation
    \/ DisplayMilestoneStatus
    \/ GenerateBudgetChart
    \/ GenerateRiskHeatmap

(***************************************************************************)
(* Inputs.  A task file that is present holds at least one record, with    *)
(* every column and non-negative whole amounts; a milestone document is    *)
(* {} or holds a list of entries with all five fields, a completion date   *)
(* not reached yet being null.                                             *)
(***************************************************************************)
SeqsUpTo(S, n) == UNION {[1..k -> S] : k \in 1..n}

BaseRow ==
    [Task_Name |-> "Task", Department |-> "Engineering", Resource_Name |-> "Alice",
     Status |-> "In Progress", Risk_Level |-> 1,
     Planned_Value |-> 100, Actual_Cost |-> 50, Earned_Value |-> 100]

Row(ev, ac, pv) ==
    [BaseRow EXCEPT !.Earned_Value = ev, !.Actual_Cost = ac, !.Planned_Value = pv]

\* the records of the specification's example
ExampleRecords == <<Row(100, 50, 100), Row(80, 100, 100)>>

Amounts == {0, 50, 100}
Statuses == {"In Progress", "Completed", "Not Started"}
Resources == {"Alice", "Bob"}
Departments == {"Engineering", "Marketing"}
RiskLevels == {1, 3, 5}

EvmRows == {Row(ev, ac, pv) : ev \in Amounts, ac \in Amounts, pv \in Amounts}
AllocRows ==
    {[BaseRow EXCEPT !.Status = s, !.Resource_Name = r] : s \in Statuses, r \in Resources}
RiskRows ==
    {[BaseRow EXCEPT !.Department = d, !.Risk_Level = r] :
        d \in Departments, r \in RiskLevels}
MixedRows ==
    {BaseRow,
     Row(80, 100, 100),
     [Row(0, 50, 100) EXCEPT !.Resource_Name = "Bob", !.Status = "Not Started"],
     [Row(50, 0, 0) EXCEPT !.Department = "Marketing", !.Risk_Level = 5,
                           !.Status = "Completed"]}

MilestoneStatuses == {"Completed", "In Progress", "Not Started", "Blocked"}
CompletionDates == {JNull, JStr(""), JStr("2024-03-01")}
Milestones ==
    {[name |-> "Beta", owner |-> "Alice", target_date |-> "2024-03-01",
      completion_date |-> c, status |-> s] :
        c \in CompletionDates, s \in MilestoneStatuses}

TaskAbsent == [present |-> FALSE, rows |-> <<>>]
TaskFiles(S) == {[present |-> TRUE, rows |-> rows] : rows \in S}
MsAbsent == [present |-> FALSE, doc |-> <<>>]
MsFiles(S) == {[present |-> TRUE, doc |-> [milestones |-> ms]] : ms \in S}
\* the document {}
MsEmptyDocument == [present |-> TRUE, doc |-> <<>>]
SampleMilestones ==
    <<[name |-> "Beta", owner |-> "Alice", target_date |-> "2024-03-01",
       completion_date |-> JNull, status |-> "In Progress"]>>
SampleMs == [present |-> TRUE, doc |-> [milestones |-> SampleMilestones]]

\* the state main() starts in, the two files being among T and M
InitWith(T, M) ==
    /\ task_file \in T
    /\ ms_file \in M
    /\ pc = "start"
    /\ heap = <<>>
    /\ df = 0
    /\ call = NoCall
    /\ scorecard = NoScorecard
    /\ resource_counts = <<>>
    /\ overallocated = <<>>
    /\ milestone_table = <<>>
    /\ risk_by_dept = <<>>
    /\ out = <<>>

\* the files that make the run stop, or skip the milestones
EdgeFiles ==
    \/ InitWith({TaskAbsent}, {MsAbsent, SampleMs})
    \/ InitWith(TaskFiles({ExampleRecords}), {MsAbsent, MsEmptyDocument})

Init ==
    InitWith({TaskAbsent} \cup TaskFiles(SeqsUpTo(MixedRows, MaxTasks)),
             {MsAbsent, MsEmptyDocument, SampleMs}
                \cup MsFiles({<<>>}) \cup MsFiles(SeqsUpTo(Milestones, 1)))

InitEvm ==
    \/ InitWith(TaskFiles(SeqsUpTo(EvmRows, MaxEvmTasks) \cup {ExampleRecords}),
                {SampleMs})
    \/ EdgeFiles

InitAlloc ==
    \/ InitWith(TaskFiles(SeqsUpTo(AllocRows, MaxAllocTasks)), {SampleMs})
    \/ EdgeFiles

InitRisk ==
    \/ InitWith(TaskFiles(SeqsUpTo(RiskRows, MaxRiskTasks)), {SampleMs})
    \/ EdgeFiles

InitMilestones ==
    \/ InitWith(TaskFiles({ExampleRecords}),
                MsFiles({<<>>} \cup SeqsUpTo(Milestones, MaxMilestones)))
    \/ EdgeFiles

Spec == Init /\ [][Next]_vars
\* main() is one sequential program: a step that can be taken is taken
SpecLive == Init /\ [][Next]_vars /\ WF_vars(Next)
SpecEvm == InitEvm /\ [][Next]_vars
SpecAlloc == InitAlloc /\ [][Next]_vars
SpecRisk == InitRisk /\ [][Next]_vars
SpecMilestones == InitMilestones /\ [][Next]_vars

(***************************************************************************)
(* Properties.  The expected values are computed from the rows of the file *)
(* in integer arithmetic, not with the operators of the model.             *)
(***************************************************************************)
Rows == task_file.rows
Frame == heap[df]
Has(c) == df # 0 /\ c \in DOMAIN Frame
Positions == 1..Len(Rows)

RECURSIVE RawSum(_, _)
RawSum(c, n) == IF n = 0 THEN 0 ELSE RawSum(c, n - 1) + Rows[n][c]
Total(c) == RawSum(c, Len(Rows))

\* C1: every record's CPI is earned_value / d, d the actual cost or 1 when the
\* actual cost is 0, and its SPI is earned_value / e, e the planned value or 1
\* when that is 0; so CPI = earned_value when actual_cost = 0 and SPI =
\* earned_value when planned_value = 0, and no index is inf or nan.
C1_ZeroSubstitution ==
    (Has("CPI") /\ Has("SPI")) =>
        \A i \in Positions :
            LET ev == Rows[i].Earned_Value
                ac == Rows[i].Actual_Cost
                pv == Rows[i].Planned_Value
            IN  /\ Frame["CPI"][i] = Frac(ev, IF ac # 0 THEN ac ELSE 1)
                /\ Frame["SPI"][i] = Frac(ev, IF pv # 0 THEN pv ELSE 1)
                /\ ac = 0 => Frame["CPI"][i] = Num(ev)
                /\ pv = 0 => Frame["SPI"][i] = Num(ev)
                /\ IsFinite(Frame["CPI"][i]) /\ IsFinite(Frame["SPI"][i])

C1_Witness ==
    /\ Has("CPI") /\ Has("SPI")
    /\ \E i \in Positions : Rows[i].Actual_Cost = 0 /\ Rows[i].Earned_Value > 0
    /\ \E i \in Positions : Rows[i].Planned_Value = 0 /\ Rows[i].Earned_Value > 0

\* C2: the aggregate indices come from the column sums and give 0 on a zero
\* divisor: overall CPI = total EV / total AC (0 when total AC is 0), overall
\* SPI = total EV / total PV (0 when total PV is 0), overall EAC = total PV /
\* overall CPI (0 when the overall CPI is 0).  With all actual costs 0 and a
\* positive earned value the overall CPI is 0 while each record's CPI is its
\* earned value; the example records give 6/5, 9/10 and 500/3.
C2_AggregateIndices ==
    scorecard.made =>
        LET tev == Total("Earned_Value")
            tac == Total("Actual_Cost")
            tpv == Total("Planned_Value")
            cpi == IF tac # 0 THEN Frac(tev, tac) ELSE Zero
            spi == IF tpv # 0 THEN Frac(tev, tpv) ELSE Zero
            eac == IF cpi # Zero THEN Frac(tpv * cpi[2], cpi[1]) ELSE Zero
        IN  /\ scorecard.total_ev = Num(tev)
            /\ scorecard.total_ac = Num(tac)
            /\ scorecard.total_pv = Num(tpv)
            /\ scorecard.overall_cpi = cpi
            /\ scorecard.overall_spi = spi
            /\ scorecard.overall_eac = eac
            /\ (tac = 0 /\ tev > 0) =>
                  /\ scorecard.overall_cpi = Zero
                  /\ \A i \in Positions : Frame["CPI"][i] = Num(Rows[i].Earned_Value)
            /\ Rows = ExampleRecords =>
                  /\ scorecard.overall_cpi = <<6, 5>>
                  /\ scorecard.overall_spi = <<9, 10>>
                  /\ scorecard.overall_eac = <<500, 3>>

C2_Witness ==
    /\ scorecard.made
    /\ Len(Rows) >= 2
    /\ Total("Actual_Cost") = 0
    /\ \A i \in Positions : Rows[i].Earned_Value > 0
    /\ scorecard.overall_cpi = Zero

\* C3: after calculate_eac every record's VAC is its planned value minus its
\* EAC, and the scorecard's VAC is the total planned value minus the overall
\* EAC, zero-divisor cases included: with a total actual cost of 0 the overall
\* EAC is 0 and the overall VAC is the total planned value.
C3_VarianceIdentity ==
    /\ Has("Variance_at_Completion") =>
          \A i \in Positions :
              LET eac == Frame["EAC"][i]
              IN  /\ IsFinite(eac)
                  /\ Frame["Variance_at_Completion"][i] =
                        Frac(Rows[i].Planned_Value * eac[2] - eac[1], eac[2])
    /\ scorecard.made =>
          LET eac == scorecard.overall_eac
              tpv == Total("Planned_Value")
          IN  /\ IsFinite(eac)
              /\ scorecard.variance_at_completion = Frac(tpv * eac[2] - eac[1], eac[2])
              /\ Total("Actual_Cost") = 0 =>
                    /\ eac = Zero
                    /\ scorecard.variance_at_completion = Num(tpv)

C3_Witness ==
    /\ scorecard.made
    /\ Has("Variance_at_Completion")
    /\ Total("Actual_Cost") = 0
    /\ Total("Planned_Value") > 0
    /\ \E i \in Positions : Frame["Variance_at_Completion"][i] # Zero

\* C6: every record's EAC is planned_value / c, c the record's CPI or 1 when
\* the CPI is 0, and is never inf or nan: a record without earned value gets
\* EAC = planned_value and VAC = 0, and a record without actual cost but with
\* earned value gets EAC = planned_value / earned_value.
C6_EacSubstitution ==
    Has("EAC") =>
        \A i \in Positions :
            LET ev == Rows[i].Earned_Value
                ac == Rows[i].Actual_Cost
                pv == Rows[i].Planned_Value
                cpi == Frame["CPI"][i]
                c == IF cpi # Zero THEN cpi ELSE One
            IN  /\ Frame["EAC"][i] = Frac(pv * c[2], c[1])
                /\ IsFinite(Frame["EAC"][i])
                /\ ev = 0 =>
                      /\ cpi = Zero
                      /\ Frame["EAC"][i] = Num(pv)
                      /\ Has("Variance_at_Completion") =>
                            Frame["Variance_at_Completion"][i] = Zero
                /\ (ac = 0 /\ ev > 0) => Frame["EAC"][i] = Frac(pv, ev)

C6_Witness ==
    /\ Has("EAC") /\ Has("Variance_at_Completion")
    /\ \E i \in Positions : Rows[i].Earned_Value = 0 /\ Rows[i].Planned_Value > 0
    /\ \E i \in Positions :
          /\ Rows[i].Actual_Cost = 0
          /\ Rows[i].Earned_Value > 0
          /\ Rows[i].Planned_Value > 0

\* the main program is past analyze_resource_allocation
AllocationDone == pc \in {"milestones", "budget", "heatmap", "done"}

\* the number of records of resource r whose status is the in-progress one
InProgressCount(r) ==
    Cardinality({i \in Positions :
                    Rows[i].Resource_Name = r /\ Rows[i].Status = "In Progress"})

\* C4: the overallocated subset holds exactly the resources with more than 3
\* in-progress records, each once and with that count: 4 such records put a
\* resource in, 3 leave it out, and records of another status do not count.
C4_OverallocatedSubset ==
    AllocationDone =>
        /\ {overallocated[k].Resource_Name : k \in 1..Len(overallocated)}
              = {r \in Resources : InProgressCount(r) > 3}
        /\ \A k \in 1..Len(overallocated) :
              overallocated[k].Active_Tasks
                  = InProgressCount(overallocated[k].Resource_Name)
        /\ \A k, l \in 1..Len(overallocated) :
              k # l => overallocated[k].Resource_Name # overallocated[l].Resource_Name
        /\ \A r \in Resources :
              /\ InProgressCount(r) = 4 =>
                    \E k \in 1..Len(overallocated) : overallocated[k].Resource_Name = r
              /\ InProgressCount(r) = 3 =>
                    \A k \in 1..Len(overallocated) : overallocated[k].Resource_Name # r

C4_Witness ==
    /\ AllocationDone
    /\ InProgressCount("Alice") = 4
    /\ \E k \in 1..Len(overallocated) :
          /\ overallocated[k].Resource_Name = "Alice"
          /\ overallocated[k].Active_Tasks = 4

RECURSIVE SumCells(_, _)
SumCells(t, S) ==
    IF S = {} THEN 0
    ELSE LET p == CHOOSE q \in S : TRUE
         IN  t[p[1]][p[2]] + SumCells(t, S \ {p})

\* the (department, risk level) pairs the table has a cell for
Cells(t) == UNION {{<<d, r>> : r \in DOMAIN t[d]} : d \in DOMAIN t}

\* C5: the cells of the (department, risk level) table sum to the number of
\* task records: each cell holds the number of records of its pair, every
\* record's pair has a cell, and a pair without record holds 0.
C5_RiskCellsSumToTotal ==
    pc = "done" =>
        /\ SumCells(risk_by_dept, Cells(risk_by_dept)) = Len(Rows)
        /\ \A i \in Positions :
              <<Rows[i].Department, Rows[i].Risk_Level>> \in Cells(risk_by_dept)
        /\ \A p \in Cells(risk_by_dept) :
              risk_by_dept[p[1]][p[2]] =
                  Cardinality({i \in Positions :
                      Rows[i].Department = p[1] /\ Rows[i].Risk_Level = p[2]})

C5_Witness ==
    /\ pc = "done"
    /\ Len(Rows) >= 3
    /\ \E p \in Cells(risk_by_dept) : risk_by_dept[p[1]][p[2]] = 0
    /\ \E p \in Cells(risk_by_dept) : risk_by_dept[p[1]][p[2]] = 2

\* the main program is past display_milestone_status
MilestonesDone == pc \in {"budget", "heatmap", "done"}
LoadedMilestones == ms_file.doc.milestones
MilestonesLoaded == ms_file.present /\ DOMAIN ms_file.doc # {}

NothingComputed ==
    /\ df = 0 /\ heap = <<>> /\ call = NoCall
    /\ ~scorecard.made
    /\ resource_counts = <<>> /\ overallocated = <<>>
    /\ milestone_table = <<>> /\ risk_by_dept = <<>>

\* C7: without the task file the run stops at the load, with the diagnostic
\* and nothing computed, reported, displayed or drawn.  With the task file the
\* run never stops early and reaches its end; when the milestone file is
\* missing the scorecard, the allocation report, the warning in place of the
\* milestone table, the two charts and the closing line have then been
\* produced, in this order.
C7_MissingSources ==
    /\ [](/\ ~task_file.present =>
                /\ pc \in {"start", "halted"}
                /\ NothingComputed
                /\ pc = "halted" => out = <<"Error: project_data.csv not found.">>
          /\ task_file.present => pc # "halted"
          /\ (task_file.present /\ ~ms_file.present /\ pc = "done") =>
                /\ out = <<"scorecard", "resource_allocation",
                           "Warning: milestones.json not found.",
                           "budget_report.png", "risk_heatmap.png", "complete">>
                /\ milestone_table = <<>>
                /\ scorecard.made
                /\ DOMAIN risk_by_dept # {})
    /\ (task_file.present /\ ~ms_file.present) ~> (pc = "done")
    /\ (~task_file.present) ~> (pc = "halted")

C7_Witness ==
    /\ task_file.present /\ ~ms_file.present /\ pc = "done"
    /\ \E k \in 1..Len(out) : out[k] = "risk_heatmap.png"
    /\ \A k \in 1..Len(out) : out[k] # "milestones"

\* C8 as stated: after a metrics function returns, the collection that was
\* passed in is as it was before the call.
C8_ArgumentUntouched ==
    call.fn # "none" => heap[call.arg] = call.before

NewColumns(fn) ==
    IF fn = "calculate_evm_metrics" THEN {"CPI", "SPI"}
    ELSE {"EAC", "Variance_at_Completion"}

\* C8 amended: a metrics function adds its derived columns to the collection
\* it is given and returns that same collection, the only one of the run: the
\* columns the collection had keep their values, and the input columns are at
\* every step those read from the file.
C8_InPlaceEnrichment ==
    /\ Len(heap) <= 1
    /\ call.fn # "none" =>
          /\ call.ret = call.arg
          /\ df = call.arg
          /\ DOMAIN heap[call.arg] = DOMAIN call.before \cup NewColumns(call.fn)
          /\ \A c \in DOMAIN call.before : heap[call.arg][c] = call.before[c]
          /\ NewColumns(call.fn) \cap DOMAIN call.before = {}
    /\ df # 0 =>
          \A c \in InputColumns :
              /\ c \in DOMAIN Frame
              /\ \A i \in Positions :
                    Frame[c][i] = IF c \in AmountColumns THEN Num(Rows[i][c])
                                  ELSE Rows[i][c]

C8_Witness ==
    /\ call.fn = "calculate_eac"
    /\ call.ret = call.arg
    /\ heap[call.arg] # call.before
    /\ "CPI" \in DOMAIN call.before
    /\ "EAC" \notin DOMAIN call.before
    /\ "EAC" \in DOMAIN heap[call.arg]

DerivedPresent == IF df = 0 THEN {} ELSE DerivedColumns \cap DOMAIN Frame
ConsumerSteps == {"scorecard", "alloc", "milestones", "budget", "heatmap"}

\* C10 as stated: in every state the four derived fields are on a record all
\* together or not at all.
C10_AllFourTogether ==
    DerivedPresent \in {{}, DerivedColumns}

\* C10 amended: the derived fields are attached in two steps, CPI and SPI by
\* calculate_evm_metrics and EAC and VAC by calculate_eac right after it, so
\* that between the two calls a record carries CPI and SPI only; each field
\* is attached once and never assigned again; a consumer step runs only when
\* every record carries all four, and no consumer step changes the records.
C10_DerivedFieldsLifecycle ==
    /\ [](/\ pc \in {"start", "halted", "evm"} => DerivedPresent = {}
          /\ pc = "eac" => DerivedPresent = {"CPI", "SPI"}
          /\ pc \in ConsumerSteps \cup {"done"} =>
                /\ DerivedPresent = DerivedColumns
                /\ \A c \in DerivedColumns : Len(Frame[c]) = Len(Rows))
    /\ [][/\ \A c \in DerivedPresent : c \in DerivedPresent' /\ Frame'[c] = Frame[c]
          /\ pc \in ConsumerSteps => heap' = heap /\ df' = df]_vars

C10_Witness ==
    /\ pc = "done"
    /\ DerivedPresent = DerivedColumns
    /\ Len(Rows) = 2
    /\ \E k \in 1..Len(out) : out[k] = "scorecard"

====
